---- MODULE Spec2Model ----
(***************************************************************************)
(* A model of the type builders of sanity-typed-schema-builder: the array  *)
(* builder (item / itemsInternal / array), the reference builder           *)
(* (reference / referenceInternal), the named object builder (objectNamed),*)
(* the field set and object builders, the document builder and the text    *)
(* builder.  Every builder is a pure function from a definition to a node  *)
(* {zod, parse, mock, schema}; the state machine below plays a caller that *)
(* composes a node step by step and then applies one operation to it.      *)
(***************************************************************************)
EXTENDS Integers, Sequences, FiniteSets, TLC

VARIABLES
    op,      \* the last call the caller made
    defn,    \* <<>> or <<def>>: the definition handed to the last builder call
    items,   \* the ItemsType under construction: the `items` array of itemsInternal
    arr,     \* <<>> or <<node>>: the node returned by array(def)
    ref,     \* <<>> or <<node>>: the ReferenceType returned by reference(def) and to(document)
    calls,   \* the documents handed to `to`, in call order (a log of the caller)
    named,   \* <<>> or <<node>>: the node returned by objectNamed(def)
    flds,    \* the field definitions handed to fields().field(), in call order
    built,   \* <<>> or <<node>>: the node returned by object(def), document(def) or text(def)
    raw,     \* the raw value handed to the last parse
    at,      \* the path handed to the last mock
    out      \* the outcome of the last parse / mock / resolve

vars == <<op, defn, items, arr, ref, calls, named, flds, built, raw, at, out>>

----------------------------------------------------------------------------
(* Bounds of the exploration.                                              *)

\* the largest number of item kinds chained with .item()
MaxItems == 2

\* the number of item kinds a union of kinds is given at most
MaxKinds == 3
\* the largest value given to min / max / length
MaxCard == 1
\* the longest raw array handed to an array's parse
MaxLen == 2
\* the largest number of chained .to() calls
MaxTo == 3
\* the largest number of fields chained with .field()
MaxFields == 2
\* the largest value given to a text's min / max / length
MaxText == 2

----------------------------------------------------------------------------
(* JavaScript values.  Every value is a record of one shape, so that any   *)
(* two values can be compared: t is the runtime type, b / s / o / a hold a *)
(* boolean, a string, an object's own properties, an array's elements.     *)

NoObj == [x \in {} |-> x]

Undef == [t |-> "undefined", b |-> FALSE, s |-> "", o |-> NoObj, a |-> <<>>]
Null == [t |-> "null", b |-> FALSE, s |-> "", o |-> NoObj, a |-> <<>>]
Bool(b) == [t |-> "boolean", b |-> b, s |-> "", o |-> NoObj, a |-> <<>>]
Str(s) == [t |-> "string", b |-> FALSE, s |-> s, o |-> NoObj, a |-> <<>>]
Obj(o) == [t |-> "object", b |-> FALSE, s |-> "", o |-> o, a |-> <<>>]
Arr(a) == [t |-> "array", b |-> FALSE, s |-> "", o |-> NoObj, a |-> a]
\* a number
Num(n) == [t |-> "number", b |-> FALSE, s |-> "", o |-> NoObj, a |-> <<n>>]
\* a regular expression /s/
RegExp(s) == [t |-> "regexp", b |-> FALSE, s |-> s, o |-> NoObj, a |-> <<>>]
\* new Date(s)
DateOf(s) == [t |-> "date", b |-> FALSE, s |-> s, o |-> NoObj, a |-> <<>>]

\* data[key]: undefined when the object has no such property
Get(v, key) == IF key \in DOMAIN v.o THEN v.o[key] ELSE Undef

\* { ...a, ...b }: the properties of b win
Spread(a, b) == [key \in DOMAIN a \cup DOMAIN b |-> IF key \in DOMAIN b THEN b[key] ELSE a[key]]

\* a function (rule) => ...: a holds the calls it makes on the rule it is
\* given, in order, each on what the call before it returned
Fn(ruleCalls) == [t |-> "function", b |-> FALSE, s |-> "", o |-> NoObj, a |-> ruleCalls]

\* an optional number option that was not given (`min?: number` left out)
Absent == -1

\* !n for an optional number: true for undefined and for 0
Falsy(n) == n = Absent \/ n = 0

----------------------------------------------------------------------------
(* zod schemas, again records of one shape: k is the schema class, shape   *)
(* the keys of a ZodObject, opts the options of a ZodUnion or the inner    *)
(* type of a ZodOptional / ZodArray, lit the value of a ZodLiteral,        *)
(* minLength / maxLength / exactLength the checks of a ZodArray or a       *)
(* ZodString, and regex the source of a ZodString's regex check.           *)

\* no regex check
NoRegex == ""

ZBase(k) ==
    [k |-> k, shape |-> NoObj, opts |-> <<>>, lit |-> "",
     minLength |-> Absent, maxLength |-> Absent, exactLength |-> Absent,
     regex |-> NoRegex]

ZNever == ZBase("ZodNever")
ZString == ZBase("ZodString")
ZBoolean == ZBase("ZodBoolean")
ZLiteral(s) == [ZBase("ZodLiteral") EXCEPT !.lit = s]
ZOptional(z) == [ZBase("ZodOptional") EXCEPT !.opts = <<z>>]
ZObject(shape) == [ZBase("ZodObject") EXCEPT !.shape = shape]
ZUnion(zs) == [ZBase("ZodUnion") EXCEPT !.opts = zs]
ZArray(z) == [ZBase("ZodArray") EXCEPT !.opts = <<z>>]
\* zod.transform(fn): lit names the function
ZTransform(z, fn) == [ZBase("ZodEffects") EXCEPT !.opts = <<z>>, !.lit = fn]

\* the functions handed to transform: (value) => new Date(value), () => "foo"
Transform(fn, v) == IF fn = "newDate" THEN DateOf(v.s) ELSE Str("foo")

\* zod.extend(shape): the added keys override the existing ones
Extend(z, shape) == [z EXCEPT !.shape = Spread(z.shape, shape)]

\* ZodArray.min / .max / .length / .nonempty, ZodString.min / .max / .length
ZMin(z, n) == [z EXCEPT !.minLength = n]
ZMax(z, n) == [z EXCEPT !.maxLength = n]
ZLength(z, n) == [z EXCEPT !.exactLength = n]
ZNonempty(z) == ZMin(z, 1)
\* ZodString.regex
ZRegex(z, re) == [z EXCEPT !.regex = re]

\* the strings handed to a text's parse
Texts == {"", "a", "b", "ab", "ba", "abc", "bcd", "abcd", "abcde"}

\* regex.test(s), for the regex /^a/ and the strings that occur
Matches(re, s) == re = "^a" => s \in {"a", "ab", "abc", "abcd", "abcde"}

\* the outcome of a call: a returned value, or a throw; a ZodError carries
\* the paths of its issues, each the keys from the parsed value down to the
\* value that was refused
Ok(v) == [ok |-> TRUE, v |-> v, issues |-> {}]
Thrown == [ok |-> FALSE, v |-> Undef, issues |-> {}]
ZodError(issues) == [ok |-> FALSE, v |-> Undef, issues |-> issues]

\* the issues of the outcomes rs of an object's keys, each path prefixed with
\* the key it is under
IssuesUnder(rs) ==
    UNION {{<<key>> \o p : p \in rs[key].issues} : key \in DOMAIN rs}

\* the same for the elements of an array, whose keys are the indices from 0
IssuesAt(rs) ==
    UNION {{<<ToString(i - 1)>> \o p : p \in rs[i].issues} : i \in DOMAIN rs}

\* the index of the first outcome that succeeded, 0 when there is none
FirstOk(rs) ==
    IF \E i \in DOMAIN rs : rs[i].ok
    THEN CHOOSE i \in DOMAIN rs : rs[i].ok /\ \A j \in 1..(i - 1) : ~rs[j].ok
    ELSE 0

\* zod.parse(v): the parsed value, or a throw (ZodError)
RECURSIVE ZodParse(_, _)
ZodParse(z, v) ==
    CASE z.k = "ZodNever" -> ZodError({<<>>})
      [] z.k = "ZodString" ->
            IF /\ v.t = "string"
               /\ z.minLength # Absent => Len(v.s) >= z.minLength
               /\ z.maxLength # Absent => Len(v.s) <= z.maxLength
               /\ z.exactLength # Absent => Len(v.s) = z.exactLength
               /\ Matches(z.regex, v.s)
            THEN Ok(v) ELSE ZodError({<<>>})
      [] z.k = "ZodBoolean" -> IF v.t = "boolean" THEN Ok(v) ELSE ZodError({<<>>})
      [] z.k = "ZodLiteral" ->
            IF v.t = "string" /\ v.s = z.lit THEN Ok(v) ELSE ZodError({<<>>})
      [] z.k = "ZodOptional" -> IF v.t = "undefined" THEN Ok(v) ELSE ZodParse(z.opts[1], v)
      [] z.k = "ZodEffects" ->
            LET r == ZodParse(z.opts[1], v)
            IN  IF ~r.ok THEN r ELSE Ok(Transform(z.lit, r.v))
      [] z.k = "ZodObject" ->
            IF v.t # "object" THEN ZodError({<<>>})
            ELSE LET rs == [key \in DOMAIN z.shape |-> ZodParse(z.shape[key], Get(v, key))]
                     \* unknown keys are stripped; a key of the shape is set when it
                     \* is in the data or parsed to something other than undefined
                     kept == {key \in DOMAIN z.shape :
                                 key \in DOMAIN v.o \/ rs[key].v.t # "undefined"}
                 IN  IF \E key \in DOMAIN z.shape : ~rs[key].ok
                     THEN ZodError(IssuesUnder(rs))
                     ELSE Ok(Obj([key \in kept |-> rs[key].v]))
      [] z.k = "ZodUnion" ->
            LET rs == [i \in DOMAIN z.opts |-> ZodParse(z.opts[i], v)]
            IN  IF FirstOk(rs) = 0 THEN ZodError({<<>>}) ELSE rs[FirstOk(rs)]
      [] z.k = "ZodArray" ->
            IF v.t # "array" THEN ZodError({<<>>})
            ELSE LET n == Len(v.a)
                     rs == [i \in DOMAIN v.a |-> ZodParse(z.opts[1], v.a[i])]
                     tooFew == z.minLength # Absent /\ n < z.minLength
                     tooMany == z.maxLength # Absent /\ n > z.maxLength
                     notExact == z.exactLength # Absent /\ n # z.exactLength
                 IN  IF notExact \/ tooFew \/ tooMany \/ \E i \in DOMAIN v.a : ~rs[i].ok
                     THEN ZodError((IF notExact \/ tooFew \/ tooMany THEN {<<>>} ELSE {})
                                   \cup IssuesAt(rs))
                     ELSE Ok(Arr([i \in DOMAIN v.a |-> rs[i].v]))

----------------------------------------------------------------------------
(* Mock producers.  A mock function is kept as the closure it is: which    *)
(* function (fn), the value it closes over (v) and the mock functions it   *)
(* calls (inner).  A path is the sequence of field names from the root.    *)

\* itemsInternal's `() => []`
EmptyArrayMock == [fn |-> "emptyArray", v |-> Undef, inner |-> <<>>]
\* a caller's override `() => v`
ConstMock(v) == [fn |-> "const", v |-> v, inner |-> <<>>]
\* boolean()'s mock: faker.datatype.boolean() of the faker seeded by the path
BooleanMock == [fn |-> "boolean", v |-> Undef, inner |-> <<>>]
\* fields()'s mock: one value per field, names in v, the fields' mocks in inner
FieldsMock(names, mocks) ==
    [fn |-> "fields", v |-> Arr([i \in DOMAIN names |-> Str(names[i])]), inner |-> mocks]
\* objectNamed's default `(faker, path) => ({ ...fieldsMock(path), _type: name })`
ObjectNamedMock(name, fieldsMock) ==
    [fn |-> "objectNamed", v |-> Str(name), inner |-> <<fieldsMock>>]
\* a member the node does not have: node.mock is undefined
NoMock == [fn |-> "undefined", v |-> Undef, inner |-> <<>>]

\* the boolean the faker seeded by `path` draws
SeededBoolean(path) == Len(path) % 2 = 1

\* calling a mock function for a path; calling undefined throws (TypeError)
RECURSIVE CallMock(_, _)
CallMock(m, path) ==
    CASE m.fn = "emptyArray" -> Ok(Arr(<<>>))
      [] m.fn = "const" -> Ok(m.v)
      [] m.fn = "boolean" -> Ok(Bool(SeededBoolean(path)))
      [] m.fn = "fields" ->
            LET rs == [i \in DOMAIN m.inner |->
                          CallMock(m.inner[i], Append(path, m.v.a[i].s))]
            IN  IF \E i \in DOMAIN rs : ~rs[i].ok THEN Thrown
                ELSE Ok(Obj([key \in {m.v.a[i].s : i \in DOMAIN rs} |->
                                rs[CHOOSE i \in DOMAIN rs : m.v.a[i].s = key].v]))
      [] m.fn = "objectNamed" ->
            LET r == CallMock(m.inner[1], path)
            IN  IF ~r.ok THEN Thrown
                ELSE Ok(Obj(Spread(r.v.o, "_type" :> m.v)))
      [] OTHER -> Thrown

----------------------------------------------------------------------------
(* createType (../types): what a builder hands over becomes the node the   *)
(* caller sees, whose parse is the zod's parse and whose mock calls the    *)
(* builder's mock function.                                                *)

createType(mock, zod, schema) == [mock |-> mock, zod |-> zod, schema |-> schema]

\* node.parse(raw)
Parse(node, v) == ZodParse(node.zod, v)

\* node.mock(path); a node without the member has node.mock undefined
Mock(node, path) ==
    CallMock(IF "mock" \in DOMAIN node THEN node.mock ELSE NoMock, path)

----------------------------------------------------------------------------
(* The builders the modelled ones are composed with: boolean(), fields()   *)
(* and object().                                                           *)

\* boolean()
booleanType == createType(BooleanMock, ZBoolean, Obj("type" :> Str("boolean")))

\* boolean({ zodResolved: (zod) => zod.transform(() => "foo") })
booleanResolved ==
    [mock |-> BooleanMock, zod |-> ZBoolean, schema |-> Obj("type" :> Str("boolean")),
     zodResolved |-> ZTransform(ZBoolean, "constFoo")]

\* a field definition { name, optional, type }
Field(name, optional, type) == [name |-> name, optional |-> optional, type |-> type]

\* the call rule.required()
Required == [rule |-> "required", arg |-> Absent]

\* fieldValidation that asks for every field, optional or not
fieldValidation_AlwaysRequired(f) ==
    <<Required>> \o Get(f.type.schema, "validation").a

\* the validation of a field's descriptor: required() unless the field is
\* optional, then the field type's own validation
fieldValidation(f) ==
    (IF f.optional THEN <<>> ELSE <<Required>>)
    \o Get(f.type.schema, "validation").a

\* fields with every field taken as optional
fields_AllOptional(fs) ==
    [zod |-> ZObject([key \in {fs[i].name : i \in DOMAIN fs} |->
                ZOptional(fs[CHOOSE i \in DOMAIN fs : fs[i].name = key].type.zod)]),
     schema |-> Arr([i \in DOMAIN fs |->
                Obj(Spread(fs[i].type.schema.o,
                           ("name" :> Str(fs[i].name))
                           @@ ("validation" :> Fn(Get(fs[i].type.schema, "validation").a))))]),
     mock |-> FieldsMock([i \in DOMAIN fs |-> fs[i].name],
                         [i \in DOMAIN fs |->
                             IF "mock" \in DOMAIN fs[i].type THEN fs[i].type.mock ELSE NoMock])]

\* fields().field(f1).field(f2)...: the FieldsType of the field definitions fs
fields(fs) ==
    [zod |-> ZObject([key \in {fs[i].name : i \in DOMAIN fs} |->
                LET f == fs[CHOOSE i \in DOMAIN fs : fs[i].name = key]
                IN  IF f.optional THEN ZOptional(f.type.zod) ELSE f.type.zod]),
     schema |-> Arr([i \in DOMAIN fs |->
                Obj(Spread(fs[i].type.schema.o,
                           ("name" :> Str(fs[i].name))
                           @@ ("validation" :> Fn(fieldValidation(fs[i])))))]),
     mock |-> FieldsMock([i \in DOMAIN fs |-> fs[i].name],
                         [i \in DOMAIN fs |->
                             IF "mock" \in DOMAIN fs[i].type THEN fs[i].type.mock ELSE NoMock])]

\* object({ fields })
object(fs) ==
    createType(fs.mock, fs.zod,
               Obj(("type" :> Str("object")) @@ ("fields" :> fs.schema)))

\* fields().field({ name: "foo", type: boolean() })
fieldsFoo == fields(<<Field("foo", FALSE, booleanType)>>)

\* fields().field({ name: "foo", type: boolean() })
\*         .field({ name: "bar", optional: true, type: boolean() })
fieldsFooBar ==
    fields(<<Field("foo", FALSE, booleanType), Field("bar", TRUE, booleanType)>>)

objectFoo == object(fieldsFoo)

objectFooBar == object(fieldsFooBar)

\* the types handed to item(): each is read only through .zod and .schema
ItemTypes == {booleanType, objectFoo, objectFooBar}

\* a property the raw value does not have
Missing == [t |-> "missing", b |-> FALSE, s |-> "", o |-> NoObj, a |-> <<>>]

\* the object with the properties of r that are not Missing
FromOptions(r) == Obj([key \in {k \in DOMAIN r : r[k] # Missing} |-> r[key]])

\* the field definitions handed to .field()
FieldDefs ==
    {Field(name, optional, type) :
        name \in {"foo", "bar", "baz"}, optional \in BOOLEAN,
        type \in {booleanType, objectFoo}}

\* the raw values handed to the parse of an object
RawRecords ==
    {FromOptions(r) :
        r \in [foo : {Missing, Undef, Null, Bool(TRUE), Obj(NoObj), Obj("foo" :> Bool(TRUE))},
               bar : {Missing, Bool(FALSE), Obj("foo" :> Bool(TRUE))},
               baz : {Missing, Bool(TRUE)}]}
    \cup {Str("foo")}

----------------------------------------------------------------------------
(* array/index.ts                                                          *)

\* zod instanceof z.ZodObject
IsZodObject(z) == z.k = "ZodObject"

\* addKeyToZod with the key forgotten
addKeyToZod_NoKey(zod) == zod

\* addKeyToZod: a ZodObject gets the key `_key: z.string()`, anything else is
\* returned as it is
addKeyToZod(zod) ==
    IF ~IsZodObject(zod) THEN zod ELSE Extend(zod, "_key" :> ZString)

\* itemsElementZod with the union forgotten: only the first kind is tried
itemsElementZod_FirstKindOnly(its) ==
    IF Len(its) = 0 THEN ZNever ELSE addKeyToZod(its[1].zod)

\* itemsElementZod with the kinds tried newest first
itemsElementZod_NewestFirst(its) ==
    IF Len(its) = 0 THEN ZNever
    ELSE IF Len(its) = 1 THEN addKeyToZod(its[1].zod)
    ELSE ZUnion([i \in 1..Len(its) |-> addKeyToZod(its[Len(its) + 1 - i].zod)])

\* the element type of itemsInternal's z.array(...)
itemsElementZod(its) ==
    IF Len(its) = 0 THEN ZNever
    ELSE IF Len(its) = 1 THEN addKeyToZod(its[1].zod)
    ELSE ZUnion(<<addKeyToZod(its[1].zod), addKeyToZod(its[2].zod)>>
                \o [i \in 1..(Len(its) - 2) |-> addKeyToZod(its[i + 2].zod)])

\* itemsInternal with the descriptors listed newest first
itemsInternal_NewestFirst(its) ==
    createType(EmptyArrayMock,
               ZArray(itemsElementZod(its)),
               Arr([i \in DOMAIN its |-> its[Len(its) + 1 - i].schema]))

\* itemsInternal(items): the ItemsType node
itemsInternal(its) ==
    createType(EmptyArrayMock,
               ZArray(itemsElementZod(its)),
               Arr([i \in DOMAIN its |-> its[i].schema]))

\* the zod of array(def): flow(nonempty, min, max, length)(itemsZod)
arrayZod(def, itemsZod) ==
    LET z1 == IF ~def.nonempty THEN itemsZod ELSE ZNonempty(itemsZod)
        z2 == IF Falsy(def.min) THEN z1 ELSE ZMin(z1, def.min)
        z3 == IF Falsy(def.max) THEN z2 ELSE ZMax(z2, def.max)
    IN  IF def.length = Absent THEN z3 ELSE ZLength(z3, def.length)

\* a caller's own validation `(rule) => rule.unique()`
UniqueValidation == Fn(<<[rule |-> "unique", arg |-> Absent]>>)

\* validation?.(rule) ?? rule: the calls made on the rule so far, followed by
\* those of the caller's validation when one is given
callValidation(validation, rule) ==
    IF validation = Undef THEN rule ELSE rule \o validation.a

\* arrayValidation with the length step guarded by `!length`
arrayValidation_LengthUnlessZero(def) ==
    callValidation(def.validation,
        (IF ~def.nonempty THEN <<>> ELSE <<[rule |-> "min", arg |-> 1]>>)
        \o (IF Falsy(def.min) THEN <<>> ELSE <<[rule |-> "min", arg |-> def.min]>>)
        \o (IF Falsy(def.max) THEN <<>> ELSE <<[rule |-> "max", arg |-> def.max]>>)
        \o (IF Falsy(def.length) THEN <<>> ELSE <<[rule |-> "length", arg |-> def.length]>>))

\* arrayValidation with a given length replacing the min and max rules
arrayValidation_LengthAlone(def) ==
    callValidation(def.validation,
        IF def.length # Absent THEN <<[rule |-> "length", arg |-> def.length]>>
        ELSE (IF ~def.nonempty THEN <<>> ELSE <<[rule |-> "min", arg |-> 1]>>)
             \o (IF Falsy(def.min) THEN <<>> ELSE <<[rule |-> "min", arg |-> def.min]>>)
             \o (IF Falsy(def.max) THEN <<>> ELSE <<[rule |-> "max", arg |-> def.max]>>))

\* the rule calls of the schema's validation, in order, on a fresh Rule:
\* flow(nonempty, min, max, length, the caller's own validation)
arrayValidation(def) ==
    callValidation(def.validation,
        (IF ~def.nonempty THEN <<>> ELSE <<[rule |-> "min", arg |-> 1]>>)
        \o (IF Falsy(def.min) THEN <<>> ELSE <<[rule |-> "min", arg |-> def.min]>>)
        \o (IF Falsy(def.max) THEN <<>> ELSE <<[rule |-> "max", arg |-> def.max]>>)
        \o (IF def.length = Absent THEN <<>> ELSE <<[rule |-> "length", arg |-> def.length]>>))

\* the receiver of items.item(t) once the call has returned:
\* `[...items, item]` is a new list, the receiver's own is not touched
itemReceiver(its, t) == itemsInternal(its)

\* array(def): def.of is the ItemsType node, def.rest the pass-through properties
array(def) ==
    createType(IF def.mock = NoMock THEN def.of.mock ELSE def.mock,
               arrayZod(def, def.of.zod),
               Obj(Spread(def.rest,
                          ("type" :> Str("array")) @@ ("of" :> def.of.schema)
                          @@ ("validation" :> Fn(arrayValidation(def))))))

\* the definitions the caller may hand to array() for the item set `its`
ArrayDefs(its) ==
    [length : {Absent} \cup 0..MaxCard,
     max : {Absent} \cup 0..MaxCard,
     min : {Absent} \cup 0..MaxCard,
     nonempty : BOOLEAN,
     of : {itemsInternal(its)},
     mock : {NoMock},
     validation : {Undef},
     rest : {NoObj}]

\* the definitions without a cardinality the caller may hand to array() for
\* the item set `its`
PlainArrayDefs(its) ==
    [length : {Absent}, max : {Absent}, min : {Absent},
     nonempty : BOOLEAN,
     of : {itemsInternal(its)},
     mock : {NoMock},
     validation : {Undef},
     rest : {NoObj}]

\* a caller's mock override `() => [true]`
ArrayMockOverride == ConstMock(Arr(<<Bool(TRUE)>>))

\* the definitions with a mock override, an own validation and pass-through
\* properties the caller may hand to array() for the item set `its`
ArrayShapeDefs(its) ==
    [length : {Absent} \cup 0..MaxCard,
     max : {Absent} \cup 0..MaxCard,
     min : {Absent} \cup 0..MaxCard,
     nonempty : BOOLEAN,
     of : {itemsInternal(its)},
     mock : {NoMock, ArrayMockOverride},
     validation : {Undef, UniqueValidation},
     rest : {NoObj, "hidden" :> Bool(FALSE)}]

\* the elements a raw array may hold
Elements ==
    {Bool(TRUE),
     Obj("foo" :> Bool(TRUE)),
     Obj(("_key" :> Str("k")) @@ ("foo" :> Bool(TRUE))),
     Obj(("_key" :> Str("k")) @@ ("foo" :> Bool(TRUE)) @@ ("bar" :> Bool(FALSE)))}

\* the raw values handed to an array's parse
RawArrays == {Arr(a) : a \in UNION {[1..n -> Elements] : n \in 0..MaxLen}}

----------------------------------------------------------------------------
(* document(): composed with reference, which reads a document only        *)
(* through .name.  Its parse adds the identity fields and the type tag to  *)
(* the fields; its mock calls every field's mock; its resolve parses the   *)
(* value with every field resolved by the field type's own resolver.       *)

\* the mock of a document: the fields' mocks, the identity fields, the type tag
DocumentMock(name, fieldsMock) ==
    [fn |-> "document", v |-> Str(name), inner |-> <<fieldsMock>>]

\* the identity fields of a raw document
IdentityKeys == {"_id", "_createdAt", "_updatedAt", "_rev"}

\* the strings the faker draws for the identity fields
Uuids == {"2106a34f-315f-44bc-929b-bf8e9a3eba0d", "d9ea87c8-41b2-4d1a-a2ac-3f0a1f3a4c55"}
DateStrings == {"2022-06-03T03:24:55.395Z", "2021-01-12T10:00:00.000Z"}

\* the string is a UUID / is accepted by new Date() as a valid date
IsUuid(s) == s \in Uuids
IsValidDate(s) == s \in DateStrings

\* the strings the faker seeded by `path` draws
SeededUuid(path) ==
    IF Len(path) % 2 = 1 THEN "2106a34f-315f-44bc-929b-bf8e9a3eba0d"
    ELSE "d9ea87c8-41b2-4d1a-a2ac-3f0a1f3a4c55"
SeededDate(path) ==
    IF Len(path) % 2 = 1 THEN "2022-06-03T03:24:55.395Z" ELSE "2021-01-12T10:00:00.000Z"

\* the zod of a field's type that resolve uses: its zodResolved, else its zod
resolvedZod(type) ==
    IF "zodResolved" \in DOMAIN type THEN type.zodResolved ELSE type.zod

\* the fields' zod with every field resolved
fieldsZodResolved(fs) ==
    ZObject([key \in {fs[i].name : i \in DOMAIN fs} |->
                LET f == fs[CHOOSE i \in DOMAIN fs : fs[i].name = key]
                IN  IF f.optional THEN ZOptional(resolvedZod(f.type))
                    ELSE resolvedZod(f.type)])

\* identityZod with the timestamps left as the strings they arrive as
identityZod_DatesAsStrings(name) ==
    [key \in IdentityKeys |-> ZString] @@ ("_type" :> ZLiteral(name))

\* the zod of the identity fields and the type tag: the timestamps are strings
\* turned into dates
identityZod(name) ==
    ("_id" :> ZString) @@ ("_rev" :> ZString)
    @@ ("_createdAt" :> ZTransform(ZString, "newDate"))
    @@ ("_updatedAt" :> ZTransform(ZString, "newDate"))
    @@ ("_type" :> ZLiteral(name))

\* document({ name, fields })
document(name, fs) ==
    [name |-> name,
     fieldTypes |-> fs,
     mock |-> DocumentMock(name, fields(fs).mock),
     zod |-> Extend(fields(fs).zod, identityZod(name)),
     zodResolved |-> Extend(fieldsZodResolved(fs), identityZod(name)),
     schema |-> Obj(("name" :> Str(name)) @@ ("type" :> Str("document"))
                    @@ ("fields" :> fields(fs).schema))]

\* document.mock(path): every field type's mock is called
documentMock(doc, path) ==
    LET r == CallMock(doc.mock.inner[1], path)
    IN  IF ~r.ok THEN Thrown
        ELSE Ok(Obj(Spread(r.v.o,
                           ("_id" :> Str(SeededUuid(path)))
                           @@ ("_rev" :> Str("somerevstring"))
                           @@ ("_createdAt" :> Str(SeededDate(path)))
                           @@ ("_updatedAt" :> Str(SeededDate(path)))
                           @@ ("_type" :> doc.mock.v))))

\* documentResolve that hands back a value whose _createdAt is a date already
documentResolve_KeepsResolved(doc, r) ==
    IF ~r.ok THEN Thrown
    ELSE IF Get(r.v, "_createdAt").t = "date" THEN r
    ELSE ZodParse(doc.zodResolved, r.v)

\* document.resolve(value): the value parsed with every field resolved; a
\* field whose type has no resolver of its own is left as its parse returns it
documentResolve(doc, r) ==
    IF ~r.ok THEN Thrown ELSE ZodParse(doc.zodResolved, r.v)

\* the documents handed to `to`
Documents ==
    {document("foo", <<Field("foo", FALSE, booleanType)>>),
     document("bar", <<Field("value", FALSE, booleanType)>>)}

----------------------------------------------------------------------------
(* reference/index.ts                                                      *)

\* referenceZod with `.optional()` forgotten on _weak
referenceZod_WeakRequired ==
    ZObject(("_ref" :> ZString) @@ ("_type" :> ZLiteral("reference"))
            @@ ("_weak" :> ZBoolean))

\* the zod every reference node is built with
referenceZod ==
    ZObject(("_ref" :> ZString) @@ ("_type" :> ZLiteral("reference"))
            @@ ("_weak" :> ZOptional(ZBoolean)))

\* referenceInternal(def, documents): the members zod, parse (the zod's
\* parse), schema and to (which closes over def and documents)
referenceInternal(d, documents) ==
    [zod |-> referenceZod,
     schema |-> Obj(Spread(d, ("type" :> Str("reference"))
                              @@ ("to" :> Arr([i \in DOMAIN documents |->
                                                  Obj("type" :> Str(documents[i].name))])))),
     def |-> d,
     documents |-> documents]

\* reference(def = {})
reference(d) == referenceInternal(d, <<>>)

\* to with the new document put first
to_Prepend(node, doc) == referenceInternal(node.def, <<doc>> \o node.documents)

\* to that skips a document that is already a target
to_Deduplicating(node, doc) ==
    IF \E i \in DOMAIN node.documents : node.documents[i] = doc
    THEN node
    ELSE referenceInternal(node.def, Append(node.documents, doc))

\* node.to(document)
to(node, doc) == referenceInternal(node.def, Append(node.documents, doc))

\* toReceiver had `to` pushed the document onto the receiver's own list
toReceiver_Pushed(node, doc) == referenceInternal(node.def, Append(node.documents, doc))

\* the receiver of node.to(document) once the call has returned:
\* `[...documents, document]` is a new list, the receiver's own is not touched
toReceiver(node, doc) == node

\* the pass-through properties a caller may give
PassThrough == {NoObj, "hidden" :> Bool(FALSE)}

\* the raw values handed to a reference's parse
RawReferences ==
    {FromOptions(r) :
        r \in [_ref : {Missing, Str("abc"), Bool(TRUE)},
               _type : {Missing, Str("reference"), Str("foo")},
               _weak : {Missing, Undef, Null, Bool(TRUE), Str("yes")},
               _key : {Missing, Str("k")}]}
    \cup {Str("abc"), Null}

\* the field lists handed to document()
DocumentFields ==
    {<<>>,
     <<Field("foo", FALSE, booleanType)>>,
     <<Field("foo", FALSE, booleanType), Field("bar", TRUE, booleanType)>>,
     <<Field("foo", FALSE, booleanResolved)>>,
     <<Field("bar", FALSE,
             to(reference(NoObj), document("bar", <<Field("value", FALSE, booleanType)>>)))>>}

\* the definitions a caller may hand to document()
DocumentDefs == [name : {"foo", "bar"}, fields : DocumentFields]

\* the raw values handed to a document's parse and resolve
RawDocuments ==
    {FromOptions(r) :
        r \in [_id : {Missing, Str("2106a34f-315f-44bc-929b-bf8e9a3eba0d")},
               _createdAt : {Missing, Str("2022-06-03T03:24:55.395Z"),
                             DateOf("2022-06-03T03:24:55.395Z")},
               _updatedAt : {Str("2021-01-12T10:00:00.000Z"),
                             DateOf("2021-01-12T10:00:00.000Z")},
               _rev : {Missing, Str("somerevstring")},
               _type : {Missing, Str("foo"), Str("bar")},
               foo : {Missing, Bool(TRUE), Str("foo")},
               bar : {Missing, Bool(FALSE),
                      Obj(("_ref" :> Str("abc")) @@ ("_type" :> Str("reference")))}]}

----------------------------------------------------------------------------
(* objectNamed/index.ts                                                    *)

\* objectNamedZod with the type tag forgotten
objectNamedZod_NoTag(d) == d.fields.zod

\* the zod of objectNamed: fieldsZod.extend({ _type: z.literal(name) })
objectNamedZod(d) == Extend(d.fields.zod, "_type" :> ZLiteral(d.name))

\* objectNamedMock with the `_type: name` of the default forgotten
objectNamedMock_NoTag(d) ==
    IF d.mock = NoMock THEN d.fields.mock ELSE d.mock

\* objectNamedMock with `_type: name` merged into an override's result too
objectNamedMock_MergesTag(d) ==
    ObjectNamedMock(d.name, IF d.mock = NoMock THEN d.fields.mock ELSE d.mock)

\* the mock of objectNamed: the override, or by default the fields' mock with
\* `_type: name` merged in
objectNamedMock(d) ==
    IF d.mock = NoMock THEN ObjectNamedMock(d.name, d.fields.mock) ELSE d.mock

\* preview (../field): the caller's preview definition, handed through as it
\* is; undefined when the caller gave none
preview(previewDef, schemaForFields) == previewDef

\* objectNamedSchema that lists the injected _type among the fields and drops
\* the caller's pass-through properties
objectNamedSchema_TagAsField(d) ==
    Obj(("name" :> Str(d.name)) @@ ("type" :> Str("object"))
        @@ ("fields" :> Arr(d.fields.schema.a
                            \o <<Obj(("name" :> Str("_type")) @@ ("type" :> Str("string")))>>))
        @@ ("preview" :> preview(d.preview, d.fields.schema)))

\* objectNamed(def).schema():
\* { ...def, name, type: "object", fields, preview: preview(previewDef, fields) }
objectNamedSchema(d) ==
    Obj(Spread(d.rest, ("name" :> Str(d.name)) @@ ("type" :> Str("object"))
                       @@ ("fields" :> d.fields.schema)
                       @@ ("preview" :> preview(d.preview, d.fields.schema))))

\* objectNamed(def): def.rest are the pass-through properties
objectNamed(d) ==
    createType(objectNamedMock(d), objectNamedZod(d), objectNamedSchema(d))

\* ref() that hands out the named object's own descriptor
objectNamedRef_OwnSchema(d) == objectNamed(d)

\* ref() built from the field set alone, the type tag forgotten
objectNamedRef_FieldsOnly(d) ==
    createType(d.fields.mock, d.fields.zod, Obj("type" :> Str(d.name)))

\* objectNamed(def).ref()
objectNamedRef(d) ==
    createType(objectNamedMock(d), objectNamedZod(d), Obj("type" :> Str(d.name)))

\* the definitions a caller may hand to objectNamed()
ObjectNamedDefs ==
    [name : {"foo", "bar"},
     fields : {fields(<<>>), fieldsFoo, fieldsFooBar,
               fields(<<Field("bar", FALSE, reference(NoObj))>>)},
     mock : {NoMock, ConstMock(Obj(("_type" :> Str("foo")) @@ ("foo" :> Bool(TRUE))))},
     preview : {Undef, Obj("select" :> Obj("title" :> Str("foo")))},
     rest : PassThrough]

\* the paths handed to a mock: the root, and a field "parent" of some parent
Paths == {<<>>, <<"parent">>}

\* the raw values handed to a named object's parse
RawObjects ==
    {FromOptions(r) :
        r \in [_type : {Missing, Str("foo"), Str("bar"), Bool(TRUE)},
               foo : {Missing, Bool(TRUE), Str("x")},
               bar : {Missing, Bool(FALSE)},
               baz : {Missing, Str("y")}]}
    \cup {Str("foo")}

\* a tree that embeds the node as the field "child" of an object
Tree(node) == object(fields(<<Field("child", FALSE, node)>>))

\* the raw values handed to the parse of such a tree
RawTrees == {Obj("child" :> v) : v \in RawObjects} \cup {Obj(NoObj)}

----------------------------------------------------------------------------
(* text/index.ts                                                           *)

\* what faker.lorem.paragraphs() may return: three paragraphs of lorem ipsum
LoremParagraphs ==
    {"Lorem ipsum dolor sit amet consectetur adipiscing elit sed do eiusmod.\nUt enim ad minim veniam quis nostrud exercitation ullamco laboris.\nDuis aute irure dolor in reprehenderit in voluptate velit esse.",
     "Excepteur sint occaecat cupidatat non proident sunt in culpa qui.\nNemo enim ipsam voluptatem quia voluptas sit aspernatur aut odit.\nNeque porro quisquam est qui dolorem ipsum quia dolor sit amet."}

\* !regex
NoRegExp(re) == re = NoRegex

\* the zod of text(def): flow(min, max, length, regex)(z.string())
textZod(def) ==
    LET z1 == IF Falsy(def.min) THEN ZString ELSE ZMin(ZString, def.min)
        z2 == IF Falsy(def.max) THEN z1 ELSE ZMax(z1, def.max)
        z3 == IF Falsy(def.length) THEN z2 ELSE ZLength(z2, def.length)
    IN  IF NoRegExp(def.regex) THEN z3 ELSE ZRegex(z3, def.regex)

\* the rule calls of the schema's validation: flow(min, max, length, regex)
\* ahead of the caller's own validation (the regex call's argument is def.regex)
textValidation(def) ==
    callValidation(def.validation,
        (IF Falsy(def.min) THEN <<>> ELSE <<[rule |-> "min", arg |-> def.min]>>)
        \o (IF Falsy(def.max) THEN <<>> ELSE <<[rule |-> "max", arg |-> def.max]>>)
        \o (IF Falsy(def.length) THEN <<>> ELSE <<[rule |-> "length", arg |-> def.length]>>)
        \o (IF NoRegExp(def.regex) THEN <<>> ELSE <<[rule |-> "regex", arg |-> Absent]>>))

\* the properties of def that the caller gave, as { ...def } spreads them:
\* the options of text() among them, def.rest being the other properties
textDefProps(def) ==
    Spread(def.rest,
        [key \in {k \in {"length", "max", "min"} : def[k] # Absent}
                 \cup (IF NoRegExp(def.regex) THEN {} ELSE {"regex"})
                 \cup (IF def.mock = NoMock THEN {} ELSE {"mock"})
                 \cup (IF def.validation = Undef THEN {} ELSE {"validation"}) |->
            IF key = "regex" THEN RegExp(def.regex)
            ELSE IF key = "mock" THEN Fn(<<>>)
            ELSE IF key = "validation" THEN def.validation
            ELSE Num(def[key])])

\* text(def).schema(): { ...def, type: "text", validation }
textSchema(def) ==
    Obj(Spread(textDefProps(def),
               ("type" :> Str("text")) @@ ("validation" :> Fn(textValidation(def)))))

\* the mock function text() uses: def.mock, by default
\* (faker) => faker.lorem.paragraphs()
LoremMock == [fn |-> "lorem", v |-> Undef, inner |-> <<>>]

\* text(def)
text(def) ==
    [zod |-> textZod(def),
     mock |-> IF def.mock = NoMock THEN LoremMock ELSE def.mock,
     schema |-> textSchema(def)]

\* text(def).mock(): `() => mock(faker)` with the global faker, which draws
\* the paragraphs `drawn`
textMock(node, drawn) ==
    IF node.mock = LoremMock THEN Ok(Str(drawn)) ELSE CallMock(node.mock, <<>>)

\* a caller's own validation `(rule) => rule.uppercase()`
UppercaseValidation == Fn(<<[rule |-> "uppercase", arg |-> Absent]>>)

\* the definitions a caller may hand to text()
TextDefs ==
    [length : {Absent} \cup 0..MaxText,
     max : {Absent} \cup 0..MaxText,
     min : {Absent} \cup 0..MaxText,
     regex : {NoRegex, "^a"},
     mock : {NoMock, ConstMock(Str("ab"))},
     validation : {Undef, UppercaseValidation},
     rest : {NoObj, "hidden" :> Bool(FALSE)}]

\* the definitions that give nothing but constraints
PlainTextDefs ==
    {d \in TextDefs : d.mock = NoMock /\ d.validation = Undef /\ d.rest = NoObj}

\* the raw values handed to a text's parse
RawTexts == {Str(s) : s \in Texts \cup LoremParagraphs} \cup {Bool(TRUE), Undef}

----------------------------------------------------------------------------
(* The caller.  A behaviour composes one node and applies one operation to *)
(* it: nodes are immutable and the operations pure, so what an operation   *)
(* returns does not depend on the operations applied before it.            *)

Init ==
    /\ op = "start"
    /\ defn = <<>>
    /\ items = <<>>
    /\ arr = <<>>
    /\ ref = <<>>
    /\ calls = <<>>
    /\ named = <<>>
    /\ flds = <<>>
    /\ built = <<>>
    /\ raw = Undef
    /\ at = <<>>
    /\ out = Thrown

\* item(t): the first item kind
Item(t) ==
    /\ op = "start"
    /\ items' = <<t>>
    /\ op' = "item"
    /\ UNCHANGED <<defn, arr, ref, calls, named, raw, out, at, flds, built>>

\* items.item(t): one more item kind, up to `most` kinds
ItemsItemUpTo(t, most) ==
    /\ op = "item"
    /\ Len(items) < most
    /\ items' = Append(items, t)
    /\ built' = <<itemReceiver(items, t)>>
    /\ UNCHANGED <<op, defn, arr, ref, calls, named, raw, out, at, flds>>

\* items.item(t): one more item kind
ItemsItem(t) == ItemsItemUpTo(t, MaxItems)

\* array({ ...d, of: items })
Array(d) ==
    /\ op = "item"
    /\ defn' = <<d>>
    /\ arr' = <<array(d)>>
    /\ op' = "array"
    /\ UNCHANGED <<items, ref, calls, named, raw, out, at, flds, built>>

\* array.parse(v)
ArrayParse(v) ==
    /\ op = "array"
    /\ raw' = v
    /\ out' = Parse(arr[1], v)
    /\ op' = "array.parse"
    /\ UNCHANGED <<defn, items, arr, ref, calls, named, at, flds, built>>

\* array.mock()
ArrayMock ==
    /\ op = "array"
    /\ out' = Mock(arr[1], <<>>)
    /\ op' = "array.mock"
    /\ UNCHANGED <<defn, items, arr, ref, calls, named, raw, at, flds, built>>

NextArray ==
    \/ \E t \in ItemTypes : Item(t)
    \/ \E t \in ItemTypes : ItemsItem(t)
    \/ \E d \in ArrayDefs(items) : Array(d)
    \/ \E v \in RawArrays : ArrayParse(v)
    \/ ArrayMock

SpecArray == Init /\ [][NextArray]_vars

\* the array builder over unions of up to MaxKinds item kinds
NextUnion ==
    \/ \E t \in ItemTypes : Item(t)
    \/ \E t \in ItemTypes : ItemsItemUpTo(t, MaxKinds)
    \/ \E d \in PlainArrayDefs(items) : Array(d)
    \/ \E v \in RawArrays : ArrayParse(v)

SpecUnion == Init /\ [][NextUnion]_vars

\* array.schema()
ArraySchema ==
    /\ op = "array"
    /\ out' = Ok(arr[1].schema)
    /\ op' = "array.schema"
    /\ UNCHANGED <<defn, items, arr, ref, calls, named, raw, at, flds, built>>

\* the array builder with every option of its definition, its mock and its
\* schema descriptor
NextArrayShape ==
    \/ \E t \in ItemTypes : Item(t)
    \/ \E t \in ItemTypes : ItemsItem(t)
    \/ \E d \in ArrayShapeDefs(items) : Array(d)
    \/ ArrayMock
    \/ ArraySchema

SpecArrayShape == Init /\ [][NextArrayShape]_vars

\* reference(d)
Reference(d) ==
    /\ op = "start"
    /\ defn' = <<d>>
    /\ ref' = <<reference(d)>>
    /\ op' = "reference"
    /\ UNCHANGED <<items, arr, calls, named, raw, out, at, flds, built>>

\* reference.to(doc)
To(doc) ==
    /\ op = "reference"
    /\ Len(calls) < MaxTo
    /\ ref' = <<to(ref[1], doc)>>
    /\ built' = <<toReceiver(ref[1], doc)>>
    /\ calls' = Append(calls, doc)
    /\ UNCHANGED <<op, defn, items, arr, named, raw, out, at, flds>>

\* reference.parse(v)
ReferenceParse(v) ==
    /\ op = "reference"
    /\ raw' = v
    /\ out' = Parse(ref[1], v)
    /\ op' = "reference.parse"
    /\ UNCHANGED <<defn, items, arr, ref, calls, named, at, flds, built>>

\* reference.mock()
ReferenceMock ==
    /\ op = "reference"
    /\ out' = Mock(ref[1], <<>>)
    /\ op' = "reference.mock"
    /\ UNCHANGED <<defn, items, arr, ref, calls, named, raw, at, flds, built>>

\* the document D whose field "bar" is the reference node
Holder(node) == document("holder", <<Field("bar", FALSE, node)>>)

\* D.resolve(D.mock()) for the document D holding the reference
ResolveMock ==
    /\ op = "reference"
    /\ Len(calls) > 0
    /\ out' = documentResolve(Holder(ref[1]), documentMock(Holder(ref[1]), <<>>))
    /\ op' = "document.resolve"
    /\ UNCHANGED <<defn, items, arr, ref, calls, named, raw, at, flds, built>>

NextReference ==
    \/ \E d \in PassThrough : Reference(d)
    \/ \E doc \in Documents : To(doc)
    \/ \E v \in RawReferences : ReferenceParse(v)
    \/ ReferenceMock
    \/ ResolveMock

SpecReference == Init /\ [][NextReference]_vars

\* objectNamed(d)
ObjectNamed(d) ==
    /\ op = "start"
    /\ defn' = <<d>>
    /\ named' = <<objectNamed(d)>>
    /\ op' = "objectNamed"
    /\ UNCHANGED <<items, arr, ref, calls, raw, out, at, flds, built>>

\* objectNamed.parse(v)
ObjectNamedParse(v) ==
    /\ op = "objectNamed"
    /\ raw' = v
    /\ out' = Parse(named[1], v)
    /\ op' = "objectNamed.parse"
    /\ UNCHANGED <<defn, items, arr, ref, calls, named, at, flds, built>>

\* objectNamed.mock(faker, p)
ObjectNamedDotMock(p) ==
    /\ op = "objectNamed"
    /\ at' = p
    /\ out' = Mock(named[1], p)
    /\ op' = "objectNamed.mock"
    /\ UNCHANGED <<defn, items, arr, ref, calls, named, raw, flds, built>>

\* objectNamed.ref(): named holds the named object and its ref() node
Ref ==
    /\ op = "objectNamed"
    /\ named' = <<named[1], objectNamedRef(defn[1])>>
    /\ op' = "objectNamed.ref"
    /\ UNCHANGED <<defn, items, arr, ref, calls, raw, out, at, flds, built>>

\* objectNamed.ref().parse(v)
RefParse(v) ==
    /\ op = "objectNamed.ref"
    /\ raw' = v
    /\ out' = Parse(named[2], v)
    /\ op' = "ref.parse"
    /\ UNCHANGED <<defn, items, arr, ref, calls, named, at, flds, built>>

\* objectNamed.ref().mock(faker, p)
RefMock(p) ==
    /\ op = "objectNamed.ref"
    /\ at' = p
    /\ out' = Mock(named[2], p)
    /\ op' = "ref.mock"
    /\ UNCHANGED <<defn, items, arr, ref, calls, named, raw, flds, built>>

\* object({ fields: fields().field({ name: "child", type: N.ref() }) }).parse(v)
RefTreeParse(v) ==
    /\ op = "objectNamed.ref"
    /\ raw' = v
    /\ out' = Parse(Tree(named[2]), v)
    /\ op' = "ref.tree.parse"
    /\ UNCHANGED <<defn, items, arr, ref, calls, named, at, flds, built>>

NextObjectNamed ==
    \/ \E d \in ObjectNamedDefs : ObjectNamed(d)
    \/ \E v \in RawObjects : ObjectNamedParse(v)
    \/ \E p \in Paths : ObjectNamedDotMock(p)
    \/ Ref
    \/ \E v \in RawObjects : RefParse(v)
    \/ \E p \in Paths : RefMock(p)
    \/ \E v \in RawTrees : RefTreeParse(v)

SpecObjectNamed == Init /\ [][NextObjectNamed]_vars

\* fields()
Fields ==
    /\ op = "start"
    /\ flds' = <<>>
    /\ op' = "fields"
    /\ UNCHANGED <<defn, items, arr, ref, calls, named, built, raw, at, out>>

\* fields.field(f): a field set names each field once
FieldsField(f) ==
    /\ op = "fields"
    /\ Len(flds) < MaxFields
    /\ \A i \in DOMAIN flds : flds[i].name # f.name
    /\ flds' = Append(flds, f)
    /\ UNCHANGED <<op, defn, items, arr, ref, calls, named, built, raw, at, out>>

\* object({ fields })
Object ==
    /\ op = "fields"
    /\ built' = <<object(fields(flds))>>
    /\ op' = "object"
    /\ UNCHANGED <<defn, items, arr, ref, calls, named, flds, raw, at, out>>

\* object.parse(v)
ObjectParse(v) ==
    /\ op = "object"
    /\ raw' = v
    /\ out' = Parse(built[1], v)
    /\ op' = "object.parse"
    /\ UNCHANGED <<defn, items, arr, ref, calls, named, flds, built, at>>

\* fields.schema().map(({ validation }) => validation(rule)), each on a rule
\* of its own: out holds, per field, the calls made on the rule
FieldsValidation ==
    /\ op = "fields"
    /\ out' = Ok(Arr([i \in DOMAIN flds |->
                         Arr(Get(fields(flds).schema.a[i], "validation").a)]))
    /\ op' = "fields.validation"
    /\ UNCHANGED <<defn, items, arr, ref, calls, named, flds, built, raw, at>>

NextObject ==
    \/ Fields
    \/ \E f \in FieldDefs : FieldsField(f)
    \/ Object
    \/ \E v \in RawRecords : ObjectParse(v)
    \/ FieldsValidation

SpecObject == Init /\ [][NextObject]_vars

\* document(d)
Document(d) ==
    /\ op = "start"
    /\ defn' = <<d>>
    /\ built' = <<document(d.name, d.fields)>>
    /\ op' = "document"
    /\ UNCHANGED <<items, arr, ref, calls, named, flds, raw, at, out>>

\* document.parse(v)
DocumentParse(v) ==
    /\ op = "document"
    /\ raw' = v
    /\ out' = Parse(built[1], v)
    /\ op' = "document.parse"
    /\ UNCHANGED <<defn, items, arr, ref, calls, named, flds, built, at>>

\* document.mock(faker, p)
DocumentDotMock(p) ==
    /\ op = "document"
    /\ at' = p
    /\ out' = documentMock(built[1], p)
    /\ op' = "document.mock"
    /\ UNCHANGED <<defn, items, arr, ref, calls, named, flds, built, raw>>

\* document.resolve(document.resolve(v))
DocumentResolveTwice(v) ==
    /\ op = "document"
    /\ raw' = v
    /\ out' = documentResolve(built[1], documentResolve(built[1], Ok(v)))
    /\ op' = "document.resolve.resolve"
    /\ UNCHANGED <<defn, items, arr, ref, calls, named, flds, built, at>>

NextDocument ==
    \/ \E d \in DocumentDefs : Document(d)
    \/ \E v \in RawDocuments : DocumentParse(v)
    \/ \E p \in Paths : DocumentDotMock(p)
    \/ \E v \in RawDocuments : DocumentResolveTwice(v)

SpecDocument == Init /\ [][NextDocument]_vars

\* text(d)
Text(d) ==
    /\ op = "start"
    /\ defn' = <<d>>
    /\ built' = <<text(d)>>
    /\ op' = "text"
    /\ UNCHANGED <<items, arr, ref, calls, named, flds, raw, at, out>>

\* text.parse(v)
TextParse(v) ==
    /\ op = "text"
    /\ raw' = v
    /\ out' = Parse(built[1], v)
    /\ op' = "text.parse"
    /\ UNCHANGED <<defn, items, arr, ref, calls, named, flds, built, at>>

\* text.mock(), the faker drawing the paragraphs `drawn`
TextMock(drawn) ==
    /\ op = "text"
    /\ out' = textMock(built[1], drawn)
    /\ op' = "text.mock"
    /\ UNCHANGED <<defn, items, arr, ref, calls, named, flds, built, raw, at>>

\* text.mock() called twice for the node at path p (the node's mock takes no
\* path and hands the one shared faker to the mock function); the shared faker
\* is not reseeded between the calls, so each call draws its own paragraphs
TextMockTwice(p, first, second) ==
    /\ op = "text"
    /\ at' = p
    /\ raw' = textMock(built[1], first).v
    /\ out' = textMock(built[1], second)
    /\ op' = "text.mock.mock"
    /\ UNCHANGED <<defn, items, arr, ref, calls, named, flds, built>>

\* text.schema()
TextSchema ==
    /\ op = "text"
    /\ out' = Ok(built[1].schema)
    /\ op' = "text.schema"
    /\ UNCHANGED <<defn, items, arr, ref, calls, named, flds, built, raw, at>>

NextText ==
    \/ \E d \in TextDefs : Text(d)
    \/ TextSchema
    \/ \E v \in RawTexts : TextParse(v)
    \/ \E drawn \in LoremParagraphs : TextMock(drawn)
    \/ \E p \in Paths, first, second \in LoremParagraphs : TextMockTwice(p, first, second)

SpecText == Init /\ [][NextText]_vars

\* the builders whose descriptor carries a validation derived from their
\* options: arrays and texts
NextValidation ==
    \/ NextArrayShape
    \/ NextText

SpecValidation == Init /\ [][NextValidation]_vars

\* the builders that compose a node out of an earlier one: references (to)
\* and item sets (item)
NextCompose ==
    \/ NextReference
    \/ NextArrayShape

SpecCompose == Init /\ [][NextCompose]_vars

\* the builders whose options constrain both the parser and the descriptor:
\* arrays and texts
NextConstraints ==
    \/ \E t \in ItemTypes : Item(t)
    \/ \E t \in ItemTypes : ItemsItem(t)
    \/ \E d \in ArrayDefs(items) : Array(d)
    \/ \E v \in RawArrays : ArrayParse(v)
    \/ \E d \in PlainTextDefs : Text(d)
    \/ \E v \in RawTexts : TextParse(v)

SpecConstraints == Init /\ [][NextConstraints]_vars

\* the builders that take a mock override: named objects and arrays
NextOverride ==
    \/ NextObjectNamed
    \/ NextArrayShape

SpecOverride == Init /\ [][NextOverride]_vars


Next ==
    \/ NextArray \/ NextReference \/ NextObjectNamed \/ NextObject \/ NextDocument
    \/ NextText

Spec == Init /\ [][Next]_vars

----------------------------------------------------------------------------
(* Properties of the array builder, under SpecArray.                       *)

\* the element count n meets the cardinality the definition d declares
CardinalityMet(d, n) ==
    /\ d.min # Absent => n >= d.min
    /\ d.max # Absent => n <= d.max
    /\ d.length # Absent => n = d.length

\* the element e conforms to the item kind t as an element of an array: t's own
\* parser accepts it and, for a record-shaped kind, it carries a string _key
ConformsTo(t, e) ==
    /\ ZodParse(t.zod, e).ok
    /\ IsZodObject(t.zod) => Get(e, "_key").t = "string"

\* C1: an array's parse fails on every input whose element count is below the
\* declared min, above the declared max or different from the declared length,
\* for every declared value, 0 included.
C1_ParseRejectsCardinality ==
    op = "array.parse" => (~CardinalityMet(defn[1], Len(raw.a)) => ~out.ok)

\* C2: the default mock of an array yields a number of elements inside the
\* declared cardinality: at least min, at most max, exactly length.
C2_MockWithinCardinality ==
    op = "array.mock" =>
        /\ out.ok
        /\ out.v.t = "array"
        /\ CardinalityMet(defn[1], Len(out.v.a))

\* C3: an array's parse fails whenever some element conforms to none of the
\* declared item kinds, with one kind and with a union of kinds; an input whose
\* every element conforms to some declared kind and whose length meets the
\* cardinality constraints is accepted.
C3_ParseByDeclaredKinds ==
    op = "array.parse" =>
        /\ (\E i \in DOMAIN raw.a : \A k \in DOMAIN items : ~ConformsTo(items[k], raw.a[i]))
              => ~out.ok
        /\ (/\ \A i \in DOMAIN raw.a : \E k \in DOMAIN items : ConformsTo(items[k], raw.a[i])
            /\ CardinalityMet(defn[1], Len(raw.a))
            /\ defn[1].nonempty => Len(raw.a) >= 1)
              => out.ok

\* C3 happens: a union of kinds, an input of the right length, one element that
\* conforms to none of the kinds, and the parse has failed
C3_Witness ==
    /\ op = "array.parse"
    /\ Len(items) >= 2
    /\ Len(raw.a) >= 2
    /\ CardinalityMet(defn[1], Len(raw.a))
    /\ \E i \in DOMAIN raw.a : \A k \in DOMAIN items : ~ConformsTo(items[k], raw.a[i])
    /\ \E i \in DOMAIN raw.a : \E k \in DOMAIN items : ConformsTo(items[k], raw.a[i])
    /\ ~out.ok

\* C4: in an accepted array every record element carries a string _key, and is
\* parsed to what a declared record-shaped kind's own parser returns for it with
\* that _key merged in; every other element is parsed to exactly what a declared
\* non-record kind's own parser returns for it, with no key required or added.
\* So a record element without a string _key makes the parse fail.
C4_KeyOnlyForRecords ==
    op = "array.parse" /\ out.ok =>
        \A i \in DOMAIN raw.a :
            LET e == raw.a[i]
                p == out.v.a[i]
            IN  IF e.t = "object"
                THEN /\ Get(e, "_key").t = "string"
                     /\ \E k \in DOMAIN items :
                           /\ IsZodObject(items[k].zod)
                           /\ ZodParse(items[k].zod, e).ok
                           /\ p = Obj(Spread(ZodParse(items[k].zod, e).v.o,
                                             "_key" :> Get(e, "_key")))
                ELSE \E k \in DOMAIN items :
                           /\ ~IsZodObject(items[k].zod)
                           /\ ZodParse(items[k].zod, e) = Ok(p)
                           /\ "_key" \notin DOMAIN p.o

\* C4 happens: a union of a non-record and a record-shaped kind has accepted an
\* input holding a bare boolean and a keyed record
C4_Witness ==
    /\ op = "array.parse"
    /\ out.ok
    /\ \E k \in DOMAIN items : IsZodObject(items[k].zod)
    /\ \E k \in DOMAIN items : ~IsZodObject(items[k].zod)
    /\ \E i \in DOMAIN raw.a : raw.a[i].t = "boolean"
    /\ \E i \in DOMAIN raw.a : raw.a[i].t = "object" /\ "_key" \in DOMAIN out.v.a[i].o

----------------------------------------------------------------------------
(* Properties of the reference builder, under SpecReference.               *)

\* the descriptor entry of a target document
Target(doc) == Obj("type" :> Str(doc.name))

\* the `to` list of the reference node's descriptor
SchemaTo == Get(ref[1].schema, "to").a

\* C5: after the calls to(d1), ..., to(dk) the descriptor has type "reference"
\* and `to` is [{type: name(d1)}, ..., {type: name(dk)}], in call order.
C5_ToInCallOrder ==
    ref # <<>> =>
        /\ Get(ref[1].schema, "type") = Str("reference")
        /\ Get(ref[1].schema, "to") = Arr([i \in DOMAIN calls |-> Target(calls[i])])

\* C5 happens: two different documents were added, one after the other
C5_Witness ==
    /\ op = "reference"
    /\ Len(calls) >= 2
    /\ calls[1] # calls[2]
    /\ Len(SchemaTo) >= 2

\* C6 as stated: no document appears more than once in the accumulated target
\* list of the descriptor.
C6_Deduplicated ==
    ref # <<>> =>
        \A i, j \in DOMAIN SchemaTo : i # j => SchemaTo[i] # SchemaTo[j]

\* C6 as amended: the target list is not deduplicated; it holds one entry per
\* call of `to`, so a document handed to `to` n times appears n times.
C6_OneEntryPerCall ==
    ref # <<>> =>
        /\ Len(SchemaTo) = Len(calls)
        /\ \A doc \in Documents :
              Cardinality({i \in DOMAIN SchemaTo : SchemaTo[i] = Target(doc)})
                  = Cardinality({i \in DOMAIN calls : calls[i] = doc})

\* C6 happens: `to` was called again with a document that was a target already
C6_Witness ==
    /\ op = "reference"
    /\ \E i, j \in DOMAIN calls : i < j /\ calls[i] = calls[j]
    /\ \E i, j \in DOMAIN SchemaTo : i < j /\ SchemaTo[i] = SchemaTo[j]

\* the fields of a raw reference
ReferenceKeys == {"_ref", "_type", "_weak"}

\* C7: a reference's parse accepts a raw value exactly when _ref is a string,
\* _type is "reference" and _weak is absent (or undefined) or a boolean; it then
\* returns those fields unchanged; and the outcome is the one of a reference
\* with no targets at all.
C7_ParseIgnoresTargets ==
    op = "reference.parse" =>
        /\ out.ok <=> /\ raw.t = "object"
                      /\ Get(raw, "_ref").t = "string"
                      /\ Get(raw, "_type") = Str("reference")
                      /\ Get(raw, "_weak").t \in {"undefined", "boolean"}
        /\ out.ok => out.v = Obj([key \in DOMAIN raw.o \cap ReferenceKeys |-> raw.o[key]])
        /\ out = Parse(reference(defn[1]), raw)

\* C7 happens: a reference with two targets has accepted a value without _weak
C7_Witness ==
    /\ op = "reference.parse"
    /\ Len(calls) >= 2
    /\ out.ok
    /\ "_weak" \notin DOMAIN raw.o
    /\ "_key" \in DOMAIN raw.o

\* C8: a reference node has a mock operation that returns a raw reference
\* {_type: "reference", _ref: <string>}, which the node's parse accepts.
C8_MockParses ==
    op = "reference.mock" =>
        /\ out.ok
        /\ Get(out.v, "_type") = Str("reference")
        /\ Get(out.v, "_ref").t = "string"
        /\ Parse(ref[1], out.v).ok

\* C9: for a document D with a field referencing a document E, resolve applied
\* to a mocked value of D succeeds and holds, in place of the reference, a
\* value that E's own parse accepts.
C9_ResolveExpandsReference ==
    op = "document.resolve" =>
        /\ out.ok
        /\ \E i \in DOMAIN calls : ZodParse(calls[i].zod, Get(out.v, "bar")).ok

----------------------------------------------------------------------------
(* Properties of the named object builder, under SpecObjectNamed.          *)

\* C10: a named object's parse accepts a value only if its _type is the
\* declared name, whatever the fields are, and the parsed value is the parsed
\* fields together with _type equal to that name.
C10_ParseRequiresTypeTag ==
    op = "objectNamed.parse" /\ out.ok =>
        /\ Get(raw, "_type") = Str(defn[1].name)
        /\ ZodParse(defn[1].fields.zod, raw).ok
        /\ out.v = Obj(Spread(ZodParse(defn[1].fields.zod, raw).v.o,
                              "_type" :> Str(defn[1].name)))

\* C10 happens: every field of the value is valid, its _type is another
\* object's name, and the parse has failed
C10_Witness ==
    /\ op = "objectNamed.parse"
    /\ ZodParse(defn[1].fields.zod, raw).ok
    /\ "foo" \in DOMAIN defn[1].fields.zod.shape
    /\ Get(raw, "_type").t = "string"
    /\ Get(raw, "_type") # Str(defn[1].name)
    /\ ~out.ok

\* C11: a named object's default mock is the field set's mock for the same
\* path, one value per field, with _type set to the declared name; _type in
\* the result is the declared name whatever the field set produced.  (Where
\* the field set's mock throws there is no result: the default mock throws.)
C11_DefaultMockTagged ==
    op = "objectNamed.mock" /\ defn[1].mock = NoMock =>
        LET r == CallMock(defn[1].fields.mock, at)
        IN  /\ out.ok <=> r.ok
            /\ out.ok =>
                /\ out.v = Obj(Spread(r.v.o, "_type" :> Str(defn[1].name)))
                /\ DOMAIN out.v.o = DOMAIN defn[1].fields.zod.shape \cup {"_type"}
                /\ Get(out.v, "_type") = Str(defn[1].name)

\* C11 happens: the default mock of a named object with two fields was called
\* for a path below the root
C11_Witness ==
    /\ op = "objectNamed.mock"
    /\ out.ok
    /\ defn[1].mock = NoMock
    /\ at # <<>>
    /\ Get(out.v, "foo").t = "boolean"
    /\ Get(out.v, "bar").t = "boolean"
    /\ Get(out.v, "_type") = Str(defn[1].name)

\* C12: the descriptor of a named object's ref() node is exactly
\* {type: <declared name>}: no fields list, no name, no preview and none of
\* the caller's pass-through properties, for every definition.
C12_RefSchemaIsPointer ==
    Len(named) = 2 =>
        /\ named[2].schema = Obj("type" :> Str(defn[1].name))
        /\ DOMAIN named[2].schema.o = {"type"}

\* C12 happens: ref() was taken of a named object that has fields and a
\* pass-through property in its own descriptor
C12_Witness ==
    /\ op = "objectNamed.ref"
    /\ Len(named) = 2
    /\ "hidden" \in DOMAIN named[1].schema.o
    /\ Len(Get(named[1].schema, "fields").a) = 2
    /\ Get(named[1].schema, "preview") # Undef
    /\ named[2].schema # named[1].schema

\* C13: N.ref().parse(v) and N.parse(v) have the same outcome, N.ref().mock
\* returns what N.mock returns for the same path, and a tree that embeds
\* N.ref() parses a raw value to what the tree that embeds N parses it to.
C13_RefDelegates ==
    /\ op = "ref.parse" => out = Parse(named[1], raw)
    /\ op = "ref.mock" => out = Mock(named[1], at)
    /\ op = "ref.tree.parse" => out = Parse(Tree(named[1]), raw)

\* C13 happens: a tree embedding N.ref() has accepted a value whose child
\* carries N's type tag and a key that is stripped
C13_Witness ==
    /\ op = "ref.tree.parse"
    /\ out.ok
    /\ "baz" \in DOMAIN Get(raw, "child").o
    /\ Get(out.v, "child") = Parse(named[1], Get(raw, "child")).v
    /\ Get(Get(out.v, "child"), "_type") = Str(defn[1].name)
    /\ Get(Get(out.v, "child"), "foo").t = "boolean"

\* C14: a named object's descriptor is the caller's pass-through properties
\* unchanged plus name = the declared name, type = "object", fields = the field
\* set's descriptor list in insertion order, and the preview projection; the
\* injected _type is never an entry of fields.
C14_SchemaOfNamedObject ==
    named # <<>> =>
        LET schema == named[1].schema
            d == defn[1]
        IN  /\ DOMAIN schema.o = DOMAIN d.rest \cup {"name", "type", "fields", "preview"}
            /\ \A key \in DOMAIN d.rest : schema.o[key] = d.rest[key]
            /\ Get(schema, "name") = Str(d.name)
            /\ Get(schema, "type") = Str("object")
            /\ Get(schema, "fields") = d.fields.schema
            /\ Get(schema, "preview") = d.preview
            /\ \A i \in DOMAIN Get(schema, "fields").a :
                  Get(Get(schema, "fields").a[i], "name") # Str("_type")

\* C14 happens: a named object with two fields, a pass-through property and a
\* preview was built, and its descriptor lists foo ahead of bar
C14_Witness ==
    /\ op = "objectNamed"
    /\ Get(named[1].schema, "hidden") = Bool(FALSE)
    /\ Get(named[1].schema, "preview").t = "object"
    /\ Len(Get(named[1].schema, "fields").a) = 2
    /\ Get(Get(named[1].schema, "fields").a[1], "name") = Str("foo")
    /\ Get(Get(named[1].schema, "fields").a[2], "name") = Str("bar")

----------------------------------------------------------------------------
(* Properties of the field set and the object builder, under SpecObject.   *)

\* the raw value is a record without the key of the field f
Lacks(v, f) == v.t = "object" /\ f.name \notin DOMAIN v.o

\* C15: parsing an input that lacks a required field fails with a validation
\* error naming that field's path; an input that lacks an optional field never
\* fails for that reason, and the parsed record has no key for the absent
\* field, not even one holding null or undefined.
C15_RequiredAndOptionalFields ==
    op = "object.parse" =>
        \A i \in DOMAIN flds :
            Lacks(raw, flds[i]) =>
                IF flds[i].optional
                THEN /\ \A p \in out.issues : p = <<>> \/ p[1] # flds[i].name
                     /\ out.ok => flds[i].name \notin DOMAIN out.v.o
                     /\ (\A j \in DOMAIN flds :
                            j # i => ZodParse(flds[j].type.zod, Get(raw, flds[j].name)).ok)
                          => out.ok
                ELSE /\ ~out.ok
                     /\ <<flds[i].name>> \in out.issues

\* C15 happens: an input that lacks both an optional and a required field was
\* refused, and the error names the required field only
C15_Witness ==
    /\ op = "object.parse"
    /\ Len(flds) = 2
    /\ flds[1].optional /\ ~flds[2].optional
    /\ Lacks(raw, flds[1])
    /\ Lacks(raw, flds[2])
    /\ ~out.ok
    /\ out.issues = {<<flds[2].name>>}

\* the rule calls the validation of the i-th field made
CallsOfField(i) == out.v.a[i].a

\* C16: in the descriptor of a field set, a field's validation calls the
\* rule's required(), and returns what it returned, exactly when the field was
\* not declared optional; for an optional field required() is never called.
C16_RequiredUnlessOptional ==
    op = "fields.validation" =>
        /\ Len(out.v.a) = Len(flds)
        /\ \A i \in DOMAIN flds :
              /\ (\E k \in DOMAIN CallsOfField(i) : CallsOfField(i)[k] = Required)
                    <=> ~flds[i].optional
              /\ ~flds[i].optional => CallsOfField(i) = <<Required>>
              /\ flds[i].optional => CallsOfField(i) = <<>>

\* C16 happens: the validations of a required and of an optional field of one
\* field set were called
C16_Witness ==
    /\ op = "fields.validation"
    /\ Len(flds) = 2
    /\ ~flds[1].optional /\ flds[2].optional
    /\ CallsOfField(1) = <<Required>>
    /\ CallsOfField(2) = <<>>

----------------------------------------------------------------------------
(* Properties of the document builder, under SpecDocument.                 *)

\* the field definitions of the document that was built
DocFields == defn[1].fields

\* C17: a document's parse output always has the four identity fields and
\* _type equal to the declared name, _createdAt and _updatedAt turned from
\* the wire strings into dates, every other field as its field node parses it;
\* a value whose _type is not the declared name is rejected.
C17_ParseOfDocument ==
    op = "document.parse" =>
        /\ Get(raw, "_type") # Str(defn[1].name) => ~out.ok
        /\ out.ok =>
            /\ IdentityKeys \cup {"_type"} \subseteq DOMAIN out.v.o
            /\ Get(out.v, "_type") = Str(defn[1].name)
            /\ \A key \in {"_createdAt", "_updatedAt"} :
                  /\ Get(raw, key).t = "string"
                  /\ Get(out.v, key) = DateOf(Get(raw, key).s)
            /\ \A key \in {"_id", "_rev"} :
                  /\ Get(raw, key).t = "string"
                  /\ Get(out.v, key) = Get(raw, key)
            /\ \A i \in DOMAIN DocFields :
                  LET f == DocFields[i]
                      r == Parse(f.type, Get(raw, f.name))
                  IN  IF Lacks(raw, f) THEN f.optional /\ f.name \notin DOMAIN out.v.o
                      ELSE r.ok /\ Get(out.v, f.name) = r.v
            /\ DOMAIN out.v.o \subseteq
                  IdentityKeys \cup {"_type"} \cup {DocFields[i].name : i \in DOMAIN DocFields}

\* C17 happens: a document with a field has accepted a wire value, and both
\* timestamps of the output are dates
C17_Witness ==
    /\ op = "document.parse"
    /\ out.ok
    /\ Len(DocFields) = 2
    /\ Get(raw, "_createdAt").t = "string"
    /\ Get(out.v, "_createdAt").t = "date"
    /\ Get(out.v, "_updatedAt").t = "date"
    /\ Get(out.v, "foo").t = "boolean"

\* C18: a document's default mock always has the four identity fields (_id a
\* UUID string, _createdAt and _updatedAt strings that are valid dates, _rev a
\* string), _type equal to the declared name and one value per declared field;
\* the identity fields are never entries of the descriptor's field list.
C18_MockOfDocument ==
    op = "document.mock" =>
        /\ out.ok
        /\ Get(out.v, "_id").t = "string" /\ IsUuid(Get(out.v, "_id").s)
        /\ \A key \in {"_createdAt", "_updatedAt"} :
              Get(out.v, key).t = "string" /\ IsValidDate(Get(out.v, key).s)
        /\ Get(out.v, "_rev").t = "string"
        /\ Get(out.v, "_type") = Str(defn[1].name)
        /\ DOMAIN out.v.o =
              IdentityKeys \cup {"_type"} \cup {DocFields[i].name : i \in DOMAIN DocFields}
        /\ Len(Get(built[1].schema, "fields").a) = Len(DocFields)
        /\ \A i \in DOMAIN DocFields :
              Get(Get(built[1].schema, "fields").a[i], "name") = Str(DocFields[i].name)

\* document.resolve(raw), the first of the two calls
Resolved == documentResolve(built[1], Ok(raw))

----------------------------------------------------------------------------
(* Properties of the text builder, under SpecText.                         *)

\* some string conforms: the node's parse accepts it
Satisfiable(node) == \E v \in RawTexts : Parse(node, v).ok

\* C20: under every configuration of min, max, length and regex for which
\* some conforming string exists, the value the text's default mock returns is
\* accepted by the same node's parse and returned by it unchanged.
C20_MockOfTextParses ==
    op = "text.mock" /\ defn[1].mock = NoMock /\ Satisfiable(built[1]) =>
        /\ out.ok
        /\ Parse(built[1], out.v) = Ok(out.v)


\* the string s meets every constraint the definition d declares
TextConforms(d, s) ==
    /\ d.min # Absent => Len(s) >= d.min
    /\ d.max # Absent => Len(s) <= d.max
    /\ d.length # Absent => Len(s) = d.length
    /\ Matches(d.regex, s)

\* C21: a text's parse fails on every input that is not a string and on every
\* string shorter than min, longer than max, of a length other than length or
\* not matching regex, for every declared value, 0 included; otherwise it
\* returns the input string unchanged.
C21_TextParseEnforces ==
    op = "text.parse" =>
        IF raw.t = "string" /\ TextConforms(defn[1], raw.s)
        THEN out = Ok(raw)
        ELSE ~out.ok

\* C22: mock generation is deterministic in the structural path: two
\* invocations of a node's mock with the same path return equal values, however
\* many other mock calls happened in between.
C22_MockDeterministicInPath ==
    op = "text.mock.mock" => out = Ok(raw)

\* C23: a node built with a mock override returns exactly the override's
\* result from mock and does not use the default derivation (named object: no
\* field-set mock and no automatic _type merge; array: no item-set mock); a
\* node built without an override uses the default derivation.
C23_OverrideReplacesDefault ==
    /\ op = "objectNamed.mock" =>
        out = IF defn[1].mock # NoMock
              THEN CallMock(defn[1].mock, at)
              ELSE CallMock(ObjectNamedMock(defn[1].name, defn[1].fields.mock), at)
    /\ op = "array.mock" =>
        out = IF defn[1].mock # NoMock
              THEN CallMock(defn[1].mock, <<>>)
              ELSE CallMock(defn[1].of.mock, <<>>)

\* C23 happens: a named object "bar" whose override returns an object tagged
\* "foo" was mocked, and the result is the override's, tag included
C23_Witness ==
    /\ op = "objectNamed.mock"
    /\ defn[1].mock # NoMock
    /\ defn[1].name = "bar"
    /\ defn[1].fields = fieldsFooBar
    /\ out = Ok(Obj(("_type" :> Str("foo")) @@ ("foo" :> Bool(TRUE))))

\* C24: after any sequence item(n1).item(n2)..., the array's descriptor has
\* type "array", its `of` list is the descriptors of n1, ..., nk in insertion
\* order, and the caller's pass-through properties are in it unchanged.
C24_DescriptorOfArray ==
    op = "array.schema" =>
        /\ out.ok
        /\ Get(out.v, "type") = Str("array")
        /\ Get(out.v, "of") = Arr([i \in DOMAIN items |-> items[i].schema])
        /\ \A key \in DOMAIN defn[1].rest : Get(out.v, key) = defn[1].rest[key]
        /\ DOMAIN out.v.o = DOMAIN defn[1].rest \cup {"type", "of", "validation"}

\* C24 happens: the descriptor of an array of two different item kinds with a
\* pass-through property was taken
C24_Witness ==
    /\ op = "array.schema"
    /\ Len(items) = 2
    /\ items[1] # items[2]
    /\ defn[1].rest # NoObj
    /\ Get(out.v, "of").a = <<items[1].schema, items[2].schema>>

\* the calls the validation of the descriptor v makes on the rule it is given
RuleCalls(v) == Get(v, "validation").a

\* position of the call c in the calls cs (0 when it is not made)
CallAt(cs, c) ==
    IF \E i \in DOMAIN cs : cs[i] = c THEN CHOOSE i \in DOMAIN cs : cs[i] = c ELSE 0

\* C25 (as stated): in the array descriptor's validation an exact length takes
\* precedence: with length given, the rule is the exact-length rule and no min
\* or max rule is applied; only without length are min and max applied.
C25_LengthTakesPrecedence ==
    op = "array.schema" /\ defn[1].length # Absent =>
        \A i \in DOMAIN RuleCalls(out.v) :
            RuleCalls(out.v)[i].rule \notin {"min", "max"}

\* C25 (amended): the array descriptor's validation applies the length rule
\* in addition to the min and max rules, never in place of them: min(1) for
\* nonempty, min(min) and max(max) for a non-zero min and max and
\* length(length) for a declared length are each called whatever the other
\* options are, the length call after the min and max calls.
C25_LengthAlongsideMinMax ==
    op = "array.schema" =>
        LET d == defn[1]
            cs == RuleCalls(out.v)
            has(c) == CallAt(cs, c) # 0
            lengthCall == [rule |-> "length", arg |-> d.length]
        IN  /\ has([rule |-> "min", arg |-> 1]) <=> (d.nonempty \/ d.min = 1)
            /\ \A n \in 2..(MaxCard + 1) :
                  /\ has([rule |-> "min", arg |-> n]) <=> d.min = n
            /\ \A n \in 1..(MaxCard + 1) :
                  /\ has([rule |-> "max", arg |-> n]) <=> d.max = n
            /\ \A n \in 0..(MaxCard + 1) :
                  /\ has([rule |-> "length", arg |-> n]) <=> d.length = n
            /\ \A i \in DOMAIN cs :
                  cs[i].rule \in {"min", "max"} /\ has(lengthCall) => i < CallAt(cs, lengthCall)

\* C25 happens: the descriptor of an array with a min, a max and a length was
\* taken, and its validation calls min, max and length in this order
C25_Witness ==
    /\ op = "array.schema"
    /\ defn[1].min = 1 /\ defn[1].max = 1 /\ defn[1].length = 1
    /\ ~defn[1].nonempty
    /\ defn[1].validation = Undef
    /\ RuleCalls(out.v) = <<[rule |-> "min", arg |-> 1], [rule |-> "max", arg |-> 1],
                            [rule |-> "length", arg |-> 1]>>

\* the rule calls that apply the constraints the array definition d declares
\* (a min of 0 excludes nothing and takes no rule)
ArrayConstraintCalls(d) ==
    (IF ~d.nonempty THEN <<>> ELSE <<[rule |-> "min", arg |-> 1]>>)
    \o (IF d.min \in {Absent, 0} THEN <<>> ELSE <<[rule |-> "min", arg |-> d.min]>>)
    \o (IF d.max = Absent THEN <<>> ELSE <<[rule |-> "max", arg |-> d.max]>>)
    \o (IF d.length = Absent THEN <<>> ELSE <<[rule |-> "length", arg |-> d.length]>>)

\* the rule calls that apply the constraints the text definition d declares
TextConstraintCalls(d) ==
    (IF d.min \in {Absent, 0} THEN <<>> ELSE <<[rule |-> "min", arg |-> d.min]>>)
    \o (IF d.max = Absent THEN <<>> ELSE <<[rule |-> "max", arg |-> d.max]>>)
    \o (IF d.length = Absent THEN <<>> ELSE <<[rule |-> "length", arg |-> d.length]>>)
    \o (IF d.regex = NoRegex THEN <<>> ELSE <<[rule |-> "regex", arg |-> Absent]>>)

\* C26: the validation function of the descriptor of an array and of a text
\* applies every declared constraint (array: nonEmpty as min(1), then min, max,
\* length; text: min, max, length, regex) and then hands the resulting rule to
\* the caller's validation, whose result it returns; the caller's validation
\* never replaces the constraint-derived rules, and without one the
\* constraint-derived rule is returned.
C26_ValidationFoldsConstraints ==
    /\ op = "array.schema" =>
        RuleCalls(out.v) = ArrayConstraintCalls(defn[1])
                           \o (IF defn[1].validation = Undef THEN <<>> ELSE defn[1].validation.a)
    /\ op = "text.schema" =>
        RuleCalls(out.v) = TextConstraintCalls(defn[1])
                           \o (IF defn[1].validation = Undef THEN <<>> ELSE defn[1].validation.a)

ConformingKinds(e) == {k \in DOMAIN items : ConformsTo(items[k], e)}

\* the earliest declared kind among these positions
Earliest(ks) == CHOOSE k \in ks : \A j \in ks : k <= j

\* C28: when an array declares two or more item kinds and an element conforms
\* to more than one of them, parse returns for it the result of the
\* earliest-declared conforming kind (insertion order: the first, the second,
\* then the remaining ones), for any number of kinds.
C28_EarliestKindWins ==
    op = "array.parse" /\ out.ok /\ Len(items) >= 2 =>
        \A i \in DOMAIN raw.a :
            /\ ConformingKinds(raw.a[i]) # {}
            /\ out.v.a[i] =
                  ZodParse(addKeyToZod(items[Earliest(ConformingKinds(raw.a[i]))].zod),
                           raw.a[i]).v

\* C28 happens: an array of three kinds accepted an element that conforms to
\* the second and the third kind, which parse differently, and returned what
\* the second makes of it
C28_Witness ==
    /\ op = "array.parse"
    /\ out.ok
    /\ Len(items) = 3
    /\ \E i \in DOMAIN raw.a :
          /\ ConformingKinds(raw.a[i]) = {2, 3}
          /\ ZodParse(addKeyToZod(items[2].zod), raw.a[i]).v
                # ZodParse(addKeyToZod(items[3].zod), raw.a[i]).v
          /\ out.v.a[i] = ZodParse(addKeyToZod(items[2].zod), raw.a[i]).v

\* a value of n elements (or characters), s being the string when it is one,
\* passes the min, max, length and regex rules among the calls cs; re is the
\* expression the regex call was given
RulesAccept(cs, n, s, re) ==
    \A i \in DOMAIN cs :
        /\ cs[i].rule = "min" => n >= cs[i].arg
        /\ cs[i].rule = "max" => n <= cs[i].arg
        /\ cs[i].rule = "length" => n = cs[i].arg
        /\ cs[i].rule = "regex" => Matches(re, s)

\* C29: the parser and the descriptor agree on which constraints are in force:
\* for an array (nonempty, min, max, length) and a text (min, max, length,
\* regex), for every combination of option values, 0 and absent included, a
\* constraint is enforced by parse exactly when the descriptor's validation
\* emits its rule call, so that parse accepts a value of the right kind exactly
\* when the emitted rules do.
C29_ParserAgreesWithDescriptor ==
    /\ op = "array.parse"
       /\ (\A i \in DOMAIN raw.a : \E k \in DOMAIN items : ConformsTo(items[k], raw.a[i]))
          => (out.ok <=> RulesAccept(RuleCalls(arr[1].schema), Len(raw.a), "", NoRegex))
    /\ op = "text.parse" /\ raw.t = "string"
          => (out.ok <=> RulesAccept(RuleCalls(built[1].schema), Len(raw.s), raw.s,
                                     defn[1].regex))

\* C29 happens: an array with max 0 and length 0 was handed one element; the
\* descriptor emits the length rule and no max rule, and parse has refused
\* the input on its length
C29_Witness ==
    /\ op = "array.parse"
    /\ defn[1].max = 0 /\ defn[1].length = 0 /\ defn[1].min = Absent /\ ~defn[1].nonempty
    /\ Len(raw.a) = 1
    /\ \E k \in DOMAIN items : ConformsTo(items[k], raw.a[1])
    /\ RuleCalls(arr[1].schema) = <<[rule |-> "length", arg |-> 0]>>
    /\ ~out.ok

\* C30: the descriptor of a text has exactly the keys of the external schema
\* shape: type, which is "text", validation, and the caller's pass-through
\* properties; the builder's own options min, max, length, regex and mock are
\* never keys of the descriptor.
C30_DescriptorOfText ==
    op = "text.schema" =>
        /\ out.ok
        /\ Get(out.v, "type") = Str("text")
        /\ DOMAIN out.v.o = DOMAIN defn[1].rest \cup {"type", "validation"}
        /\ \A key \in DOMAIN defn[1].rest : Get(out.v, key) = defn[1].rest[key]
        /\ DOMAIN out.v.o \cap {"min", "max", "length", "regex", "mock"} = {}

====
